---- MODULE Spec2Model ----
(***************************************************************************)
(* Model of src/utils/functions.py: the batch loop of main, the artist     *)
(* name normaliser clean_artist_name and the genre encoder encode_genres.  *)
(*                                                                         *)
(* main: the input table df is the sequence of its row labels (what        *)
(* iterrows() yields as index); a row is identified by its 1-based         *)
(* position in iteration order, and that position stands for the row's     *)
(* Song/Artist pair in the batch files and in the failure file.            *)
(***************************************************************************)
EXTENDS Integers, Sequences, FiniteSets

VARIABLES
    df,               \* main: row labels of the input table, in iteration order
    pos,              \* main: number of rows the for loop has finished
    pc,               \* main: position in the body of main
    features,         \* main: result of get_track_features for the current row
    current_batch,    \* main: rows accumulated since the last flush
    failed_tracks,    \* main: rows whose lookup returned None
    batch_number,     \* main: number of the last batch file written
    processed_count,  \* main: rows attempted
    batch_files,      \* disk: the to_csv calls for batches, in order
    failed_files,     \* disk: the to_csv calls for failed_tracks.csv, in order
    sleeps,           \* processed_count at each time.sleep(30), in order
    lookups,          \* outcome of get_track_features for each row so far
    artist_name,      \* clean_artist_name: its argument
    clean_result,     \* clean_artist_name: <<returned string>>, or <<>> before the call
    genre_column,     \* encode_genres: the genre cell of each row of df
    encoded           \* encode_genres: <<result>>, or <<>> before the call

vars == <<df, pos, pc, features, current_batch, failed_tracks, batch_number,
          processed_count, batch_files, failed_files, sleeps, lookups,
          artist_name, clean_result, genre_column, encoded>>

mainVars == <<df, pos, pc, features, current_batch, failed_tracks, batch_number,
              processed_count, batch_files, failed_files, sleeps, lookups>>
cleanVars == <<artist_name, clean_result>>
encodeVars == <<genre_column, encoded>>

(***************************************************************************)
(* Bounds of the model and constants of the program.                       *)
(***************************************************************************)
MaxRows == 101       \* tables of 0..MaxRows rows
MaxFirstLabel == 1    \* labels are a..a+n-1 (a slice of a RangeIndex), a <= this
FlakyHead == 1        \* lookups of the first FlakyHead rows may fail or raise
FlakyTail == 2        \* and those of the last FlakyTail rows

BatchSize == 50       \* len(current_batch) == 50
PauseEvery == 50      \* processed_count % 50 == 0
BatchOffset == 51     \* batch_number = 51

Range(s) == {s[i] : i \in 1..Len(s)}

\* The labels of the n-row slice that starts at label a.
RangeLabels(a, n) == [p \in 1..n |-> a + p - 1]

\* The outcomes get_track_features can have for the row at 1-based position p.
LookupOutcomes(p) ==
    IF p <= FlakyHead \/ p > Len(df) - FlakyTail
    THEN {"found", "none", "raise"}
    ELSE {"found"}

(***************************************************************************)
(* main                                                                    *)
(***************************************************************************)
MainInit ==
    /\ df \in {RangeLabels(a, n) : a \in 0..MaxFirstLabel, n \in 0..MaxRows}
    /\ pos = 0
    /\ pc = "for"
    /\ features = "unset"
    /\ current_batch = <<>>
    /\ failed_tracks = <<>>
    /\ batch_number = BatchOffset
    /\ processed_count = 0
    /\ batch_files = <<>>
    /\ failed_files = <<>>
    /\ sleeps = <<>>
    /\ lookups = <<>>

MainIdle ==
    /\ df = <<>>
    /\ pos = 0
    /\ pc = "idle"
    /\ features = "unset"
    /\ current_batch = <<>>
    /\ failed_tracks = <<>>
    /\ batch_number = BatchOffset
    /\ processed_count = 0
    /\ batch_files = <<>>
    /\ failed_files = <<>>
    /\ sleeps = <<>>
    /\ lookups = <<>>

\* The row the loop body is working on, and its label.
row == pos + 1
index == df[row]

\* for index, row in df.iterrows(): the next row, then the pause check.
NextRow ==
    /\ pc = "for"
    /\ pos < Len(df)
    /\ sleeps' = IF processed_count > 0 /\ processed_count % PauseEvery = 0
                 THEN Append(sleeps, processed_count)
                 ELSE sleeps
    /\ pc' = "lookup"
    /\ UNCHANGED <<df, pos, features, current_batch, failed_tracks, batch_number,
                   processed_count, batch_files, failed_files, lookups>>
    /\ UNCHANGED <<cleanVars, encodeVars>>

\* try: features = get_track_features(...); processed_count += 1
LookupReturns ==
    /\ pc = "lookup"
    /\ \E r \in LookupOutcomes(row) \ {"raise"} :
        /\ features' = r
        /\ lookups' = Append(lookups, r)
    /\ processed_count' = processed_count + 1
    /\ pc' = "handle"
    /\ UNCHANGED <<df, pos, current_batch, failed_tracks, batch_number,
                   batch_files, failed_files, sleeps>>
    /\ UNCHANGED <<cleanVars, encodeVars>>

\* The except branch without its processed_count += 1.
LookupRaises_Uncounted ==
    /\ pc = "lookup"
    /\ "raise" \in LookupOutcomes(row)
    /\ lookups' = Append(lookups, "raise")
    /\ pos' = pos + 1
    /\ pc' = "for"
    /\ UNCHANGED <<df, features, current_batch, failed_tracks, batch_number,
                   processed_count, batch_files, failed_files, sleeps>>
    /\ UNCHANGED <<cleanVars, encodeVars>>

\* except Exception: print; processed_count += 1; continue
LookupRaises ==
    /\ pc = "lookup"
    /\ "raise" \in LookupOutcomes(row)
    /\ lookups' = Append(lookups, "raise")
    /\ processed_count' = processed_count + 1
    /\ pos' = pos + 1
    /\ pc' = "for"
    /\ UNCHANGED <<df, features, current_batch, failed_tracks, batch_number,
                   batch_files, failed_files, sleeps>>
    /\ UNCHANGED <<cleanVars, encodeVars>>

\* The success branch without current_batch = [] after the flush.
HandleFound_KeepBatch ==
    /\ pc = "handle"
    /\ features = "found"
    /\ LET appended == Append(current_batch, row)
       IN /\ current_batch' = appended
          /\ IF (Len(appended) = BatchSize \/ index = Len(df) - 1) /\ appended # <<>>
             THEN /\ batch_number' = batch_number + 1
                  /\ batch_files' = Append(batch_files,
                                           [number |-> batch_number + 1, rows |-> appended])
             ELSE UNCHANGED <<batch_number, batch_files>>
    /\ pos' = pos + 1
    /\ pc' = "for"
    /\ UNCHANGED <<df, features, failed_tracks, processed_count, failed_files,
                   sleeps, lookups>>
    /\ UNCHANGED <<cleanVars, encodeVars>>

\* The success branch with batch_number += 1 per appended row, not per flush.
HandleFound_NumberPerRow ==
    /\ pc = "handle"
    /\ features = "found"
    /\ batch_number' = batch_number + 1
    /\ LET appended == Append(current_batch, row)
       IN IF (Len(appended) = BatchSize \/ index = Len(df) - 1) /\ appended # <<>>
          THEN /\ batch_files' = Append(batch_files,
                                        [number |-> batch_number + 1, rows |-> appended])
               /\ current_batch' = <<>>
          ELSE /\ current_batch' = appended
               /\ UNCHANGED batch_files
    /\ pos' = pos + 1
    /\ pc' = "for"
    /\ UNCHANGED <<df, features, failed_tracks, processed_count, failed_files,
                   sleeps, lookups>>
    /\ UNCHANGED <<cleanVars, encodeVars>>

\* if features: append the enriched row; flush when the batch is full or the
\* row's label equals len(df) - 1.
HandleFound ==
    /\ pc = "handle"
    /\ features = "found"
    /\ LET appended == Append(current_batch, row)
       IN IF (Len(appended) = BatchSize \/ index = Len(df) - 1) /\ appended # <<>>
          THEN /\ batch_number' = batch_number + 1
               /\ batch_files' = Append(batch_files,
                                        [number |-> batch_number + 1, rows |-> appended])
               /\ current_batch' = <<>>
          ELSE /\ current_batch' = appended
               /\ UNCHANGED <<batch_number, batch_files>>
    /\ pos' = pos + 1
    /\ pc' = "for"
    /\ UNCHANGED <<df, features, failed_tracks, processed_count, failed_files,
                   sleeps, lookups>>
    /\ UNCHANGED <<cleanVars, encodeVars>>

\* else: failed_tracks.append(...)
HandleNone ==
    /\ pc = "handle"
    /\ features = "none"
    /\ failed_tracks' = Append(failed_tracks, row)
    /\ pos' = pos + 1
    /\ pc' = "for"
    /\ UNCHANGED <<df, features, current_batch, batch_number, processed_count,
                   batch_files, failed_files, sleeps, lookups>>
    /\ UNCHANGED <<cleanVars, encodeVars>>

\* after the loop: if current_batch: write the final batch
FinalBatch ==
    /\ pc = "for"
    /\ pos = Len(df)
    /\ IF current_batch # <<>>
       THEN /\ batch_number' = batch_number + 1
            /\ batch_files' = Append(batch_files,
                                     [number |-> batch_number + 1, rows |-> current_batch])
       ELSE UNCHANGED <<batch_number, batch_files>>
    /\ pc' = "failed"
    /\ UNCHANGED <<df, pos, features, current_batch, failed_tracks, processed_count,
                   failed_files, sleeps, lookups>>
    /\ UNCHANGED <<cleanVars, encodeVars>>

\* The failure file written without the test if failed_tracks.
WriteFailed_Always ==
    /\ pc = "failed"
    /\ failed_files' = Append(failed_files, failed_tracks)
    /\ pc' = "done"
    /\ UNCHANGED <<df, pos, features, current_batch, failed_tracks, batch_number,
                   processed_count, batch_files, sleeps, lookups>>
    /\ UNCHANGED <<cleanVars, encodeVars>>

\* if failed_tracks: write failed_tracks.csv
WriteFailed ==
    /\ pc = "failed"
    /\ failed_files' = IF failed_tracks # <<>>
                       THEN Append(failed_files, failed_tracks)
                       ELSE failed_files
    /\ pc' = "done"
    /\ UNCHANGED <<df, pos, features, current_batch, failed_tracks, batch_number,
                   processed_count, batch_files, sleeps, lookups>>
    /\ UNCHANGED <<cleanVars, encodeVars>>

CleanIdle == artist_name = <<>> /\ clean_result = <<>>
EncodeIdle == genre_column = <<>> /\ encoded = <<>>

\* One run of main over one input table.
Init == MainInit /\ CleanIdle /\ EncodeIdle
Next ==
    \/ NextRow
    \/ LookupReturns
    \/ LookupRaises
    \/ HandleFound
    \/ HandleNone
    \/ FinalBatch
    \/ WriteFailed
Spec == Init /\ [][Next]_vars

(***************************************************************************)
(* clean_artist_name.  A string is a sequence of one-character strings.    *)
(***************************************************************************)
MaxParts == 4         \* artist strings are built from at most MaxParts pieces

delimiters ==
    << <<"&">>,
       <<"f","e","a","t",".">>,
       <<"f","e","a","t","u","r","i","n","g">>,
       <<"F","e","a","t","u","r","i","n","g">>,
       <<"F","E","A","T","U","R","I","N","G">>,
       <<"F","e","a","t",".">>,
       <<"F","E","A","T",".">>,
       <<"f","t",".">>,
       <<"F","t",".">>,
       <<"F","T",".">>,
       <<"/">>,
       <<"w","i","t","h">>,
       <<"W","I","T","H">>,
       <<"W","i","t","h">>,
       <<",">>,
       <<"A","n","d">>,
       <<"a","n","d">>,
       <<"A","n","d">> >>

\* Characters str.strip() removes.
Whitespace == {" "}

\* str.find: the 1-based start of the first occurrence of d in s, 0 if none.
Find(s, d) ==
    LET starts == {i \in 1..(Len(s) - Len(d) + 1) : SubSeq(s, i, i + Len(d) - 1) = d}
    IN IF starts = {} THEN 0 ELSE CHOOSE i \in starts : \A j \in starts : i <= j

\* delimiter in artist_name
Contains(s, d) == Find(s, d) # 0

\* artist_name.split(delimiter)[0]
SplitFirst(s, d) == IF Contains(s, d) THEN SubSeq(s, 1, Find(s, d) - 1) ELSE s

\* str.strip()
Strip(s) ==
    LET keep == {i \in 1..Len(s) : s[i] \notin Whitespace}
    IN IF keep = {} THEN <<>>
       ELSE SubSeq(s, CHOOSE i \in keep : \A j \in keep : i <= j,
                      CHOOSE i \in keep : \A j \in keep : j <= i)

\* The for loop over delimiters[i..], applied to the current value of artist_name.
RECURSIVE CleanLoop(_, _)
CleanLoop(name, i) ==
    IF i > Len(delimiters) THEN name
    ELSE CleanLoop(IF Contains(name, delimiters[i])
                   THEN Strip(SplitFirst(name, delimiters[i]))
                   ELSE name,
                   i + 1)

\* The loop with a break after the first delimiter that matches.
RECURSIVE CleanLoopBreak(_, _)
CleanLoopBreak(name, i) ==
    IF i > Len(delimiters) THEN name
    ELSE IF Contains(name, delimiters[i])
         THEN Strip(SplitFirst(name, delimiters[i]))
         ELSE CleanLoopBreak(name, i + 1)

clean_artist_name_break(name) == CleanLoopBreak(name, 1)

\* The loop followed by a strip() of whatever it leaves.
clean_artist_name_strip(name) == Strip(CleanLoop(name, 1))

clean_artist_name(name) == CleanLoop(name, 1)

\* Pieces the artist strings of the model are concatenated from.
Pieces ==
    { <<"A">>, <<"B">>, <<" ">>, <<"&">>, <<",">>, <<"/">>,
      <<"a","n","d">>, <<"f","t",".">> }

RECURSIVE ArtistStrings(_)
ArtistStrings(n) ==
    IF n = 0 THEN {<<>>}
    ELSE LET shorter == ArtistStrings(n - 1)
         IN shorter \cup {s \o q : s \in shorter, q \in Pieces}

CleanInit ==
    /\ artist_name \in ArtistStrings(MaxParts)
    /\ clean_result = <<>>

\* One call clean_artist_name(artist_name).
CallClean ==
    /\ clean_result = <<>>
    /\ clean_result' = <<clean_artist_name(artist_name)>>
    /\ UNCHANGED <<artist_name, mainVars, encodeVars>>

InitClean == MainIdle /\ CleanInit /\ EncodeIdle
NextClean == CallClean
SpecClean == InitClean /\ [][NextClean]_vars

(***************************************************************************)
(* encode_genres.  A genre cell is a list of labels or the text of one; a  *)
(* text is the sequence of its tokens: "[", "]", "," and the quoted labels.*)
(***************************************************************************)
MaxTableRows == 2     \* tables of 0..MaxTableRows rows
MaxGenresPerRow == 2  \* genre lists of 0..MaxGenresPerRow labels

\* The strings of the model, in the order Python's sorted() gives them.
StringOrder == <<",", "[", "]", "blues", "pop", "rock">>
Genres == {"blues", "pop", "rock"}
Punctuation == {"[", "]", ","}

\* repr(list): the text a list is stored as in a batch file.
RECURSIVE Items(_)
Items(l) ==
    IF l = <<>> THEN <<>>
    ELSE IF Len(l) = 1 THEN l
    ELSE <<Head(l), ",">> \o Items(Tail(l))
Repr(l) == <<"[">> \o Items(l) \o <<"]">>

\* ast.literal_eval on the text of a list of strings.
literal_eval(x) ==
    LET IsLabel(t) == t \notin Punctuation
    IN SelectSeq(x, IsLabel)

\* lambda x: ast.literal_eval(x) if isinstance(x, str) else x
ParseCell(x) == IF x.isstr THEN literal_eval(x.value) ELSE x.value

\* sorted(set(labels))
RECURSIVE Sorted(_)
Sorted(S) ==
    IF S = {} THEN <<>>
    ELSE LET Rank(t) == CHOOSE i \in 1..Len(StringOrder) : StringOrder[i] = t
             least == CHOOSE t \in S : \A u \in S : Rank(t) <= Rank(u)
         IN <<least>> \o Sorted(S \ {least})

\* MultiLabelBinarizer().fit_transform(y): classes_ and the indicator matrix.
fit_transform(y) ==
    LET classes == Sorted(UNION {Range(y[r]) : r \in 1..Len(y)})
    IN [classes |-> classes,
        matrix |-> [r \in 1..Len(y) |->
                       [j \in 1..Len(classes) |->
                           IF classes[j] \in Range(y[r]) THEN 1 ELSE 0]]]

\* encode_genres without the literal_eval step.
encode_genres_unparsed(column) ==
    LET raw == [r \in 1..Len(column) |-> column[r].value]
        mlb == fit_transform(raw)
    IN [artist_genres |-> raw, columns |-> mlb.classes, indicators |-> mlb.matrix]

\* encode_genres(df): the genre column after parsing, the names of the indicator
\* columns joined onto the table and, per row, their values.
encode_genres(column) ==
    LET parsed == [r \in 1..Len(column) |-> ParseCell(column[r])]
        mlb == fit_transform(parsed)
    IN [artist_genres |-> parsed, columns |-> mlb.classes, indicators |-> mlb.matrix]

RECURSIVE GenreLists(_)
GenreLists(n) ==
    IF n = 0 THEN {<<>>}
    ELSE LET shorter == GenreLists(n - 1)
         IN shorter \cup {Append(l, g) : l \in shorter, g \in Genres}

GenreCells ==
    {[isstr |-> FALSE, value |-> l] : l \in GenreLists(MaxGenresPerRow)}
    \cup {[isstr |-> TRUE, value |-> Repr(l)] : l \in GenreLists(MaxGenresPerRow)}

RECURSIVE GenreColumns(_)
GenreColumns(n) ==
    IF n = 0 THEN {<<>>}
    ELSE LET shorter == GenreColumns(n - 1)
         IN shorter \cup {Append(c, x) : c \in shorter, x \in GenreCells}

EncodeInit ==
    /\ genre_column \in GenreColumns(MaxTableRows)
    /\ encoded = <<>>

\* One call encode_genres(df).
CallEncode ==
    /\ encoded = <<>>
    /\ encoded' = <<encode_genres(genre_column)>>
    /\ UNCHANGED <<genre_column, mainVars, cleanVars>>

InitEncode == MainIdle /\ CleanIdle /\ EncodeInit
NextEncode == CallEncode
SpecEncode == InitEncode /\ [][NextEncode]_vars

(***************************************************************************)
(* Properties of main                                                      *)
(***************************************************************************)
\* The rows of the batch files written so far, file after file.
RECURSIVE BatchRowsUpTo(_)
BatchRowsUpTo(k) == IF k = 0 THEN <<>> ELSE BatchRowsUpTo(k - 1) \o batch_files[k].rows
WrittenBatchRows == BatchRowsUpTo(Len(batch_files))

\* The records of the failure file(s) written so far.
RECURSIVE FailedRowsUpTo(_)
FailedRowsUpTo(k) == IF k = 0 THEN <<>> ELSE FailedRowsUpTo(k - 1) \o failed_files[k]
WrittenFailedRows == FailedRowsUpTo(Len(failed_files))

Occurrences(s, x) == Cardinality({i \in 1..Len(s) : s[i] = x})

\* Number of places the row at position p has in the batch files written so far.
BatchOccurrences(p) == Occurrences(WrittenBatchRows, p)

\* Number of places the row at position p has in the failure file(s) written so far.
FailedOccurrences(p) == Occurrences(WrittenFailedRows, p)

\* Rows of the table, in input order, whose lookup had outcome o.
RowsWith(o) ==
    LET Is(p) == p <= Len(lookups) /\ lookups[p] = o
    IN SelectSeq([p \in 1..Len(df) |-> p], Is)

CeilDiv(a, b) == (a + b - 1) \div b

\* C1: when main has finished, every input row is either in exactly one batch
\* file or in the failure set, never both and never neither.
C1_EveryRowBatchedOrFailed ==
    pc = "done" =>
        \A p \in 1..Len(df) :
            \/ BatchOccurrences(p) = 1 /\ p \notin Range(failed_tracks)
            \/ BatchOccurrences(p) = 0 /\ p \in Range(failed_tracks)

\* C2: no row is written twice, to one output or to two; when main has finished, a row is in exactly
\* one batch file iff its lookup returned features, in the failure file iff its
\* lookup returned None, and in no output iff its lookup raised; a raising lookup
\* is counted as processed and the loop goes on to the next row.
C2_RowInExactlyOnePlace ==
    /\ processed_count = Len(lookups)
    /\ LET written == WrittenBatchRows \o WrittenFailedRows
       IN Cardinality(Range(written)) = Len(written)
    /\ pc = "done" =>
        /\ Len(lookups) = Len(df)
        /\ \A p \in 1..Len(df) :
            /\ lookups[p] = "found" <=> BatchOccurrences(p) = 1
            /\ lookups[p] = "none" <=> FailedOccurrences(p) = 1
            /\ lookups[p] = "raise" <=>
                   (BatchOccurrences(p) = 0 /\ FailedOccurrences(p) = 0)

C2_Witness ==
    /\ pc = "done"
    /\ Len(df) > BatchSize
    /\ df[1] = 0
    /\ {"found", "none", "raise"} \subseteq Range(lookups)
    /\ lookups[Len(df)] = "found"
    /\ lookups[1] = "raise"
    /\ Len(batch_files) >= 2
    /\ failed_files # <<>>

\* C3: when main has finished, the number of batch files equals
\* ceil((N - failures - droppedErrors) / 50).
C3_BatchFileCount ==
    pc = "done" =>
        Len(batch_files) =
            CeilDiv(Len(df) - Len(RowsWith("none")) - Len(RowsWith("raise")), BatchSize)

\* C4: batch_number starts at 51 and is 51 plus the number of flushes so far, and
\* the k-th flush wrote the file numbered 51 + k (so the numbers increase by one
\* per flush and no number is written twice).
C4_BatchNumbering ==
    /\ batch_number = BatchOffset + Len(batch_files)
    /\ \A k \in 1..Len(batch_files) : batch_files[k].number = BatchOffset + k
    /\ \A j, k \in 1..Len(batch_files) :
           j < k => batch_files[j].number < batch_files[k].number

C4_Witness ==
    /\ pc = "done"
    /\ Len(df) > BatchSize
    /\ df[1] = 0
    /\ Len(batch_files) >= 2
    /\ batch_files[1].number = 52
    /\ Len(batch_files[1].rows) = BatchSize
    /\ "none" \in Range(lookups)

\* C5: every batch file holds 1..50 rows, every batch file but the last one
\* written holds exactly 50, and when main has finished the k-th file holds the
\* successful rows 50(k-1)+1 .. min(50k, S) in input order.
C5_BatchContents ==
    /\ \A k \in 1..Len(batch_files) :
        /\ Len(batch_files[k].rows) \in 1..BatchSize
        /\ k < Len(batch_files) => Len(batch_files[k].rows) = BatchSize
    /\ pc = "done" =>
        LET found == RowsWith("found")
            S == Len(found)
        IN \A k \in 1..Len(batch_files) :
               batch_files[k].rows =
                   SubSeq(found, BatchSize * (k - 1) + 1,
                          IF BatchSize * k < S THEN BatchSize * k ELSE S)

\* Number of rows whose loop iteration has begun.
RowsBegun == IF pc \in {"lookup", "handle"} THEN pos + 1 ELSE pos

\* C9: at the start of a row's iteration processed_count is the number of rows
\* already iterated (whatever their outcomes), and the pauses taken so far are
\* exactly those at the counts 50, 100, ... met at the start of an iteration.
C9_PauseEveryFiftyProcessed ==
    /\ pc = "lookup" => processed_count = pos
    /\ pc = "for" => processed_count = pos
    /\ sleeps = [j \in 1..(IF RowsBegun = 0 THEN 0 ELSE (RowsBegun - 1) \div PauseEvery)
                   |-> PauseEvery * j]

C9_Witness ==
    /\ pc = "lookup"
    /\ sleeps = <<PauseEvery, 2 * PauseEvery>>
    /\ pos = 2 * PauseEvery
    /\ "raise" \in Range(lookups)
    /\ "none" \in Range(lookups)

\* C10 (state part): the failure file is written at most once and only when main
\* is done; it is then written iff some lookup returned None, and holds exactly
\* the rows whose lookup returned None, in input order.
C10_FailureFileState ==
    /\ Len(failed_files) <= 1
    /\ failed_files # <<>> => pc = "done" /\ pos = Len(df)
    /\ pc = "done" => (failed_files # <<>> <=> "none" \in Range(lookups))
    /\ \A k \in 1..Len(failed_files) : failed_files[k] = RowsWith("none")

\* C10: the failure file is written at most once, only when the whole input is
\* consumed and every batch file is written (none is written after it); it is
\* written iff some lookup returned None, and holds exactly the rows whose
\* lookup returned None, in input order.
C10_FailureFile ==
    /\ []C10_FailureFileState
    /\ [][failed_files' # failed_files =>
             /\ pos = Len(df)
             /\ batch_files' = batch_files
             /\ current_batch = <<>> \/ BatchOccurrences(current_batch[1]) = 1]_vars
    /\ [][failed_files # <<>> => batch_files' = batch_files]_vars

C10_Witness ==
    /\ pc = "done"
    /\ failed_files # <<>>
    /\ Len(failed_files[1]) >= 2
    /\ "raise" \in Range(lookups)
    /\ batch_files # <<>>

(***************************************************************************)
(* Properties of clean_artist_name                                         *)
(***************************************************************************)
HasDelimiter(s) == \E i \in 1..Len(delimiters) : Contains(s, delimiters[i])

\* The first delimiter, in list order, that occurs in s.
FirstListedDelimiter(s) ==
    delimiters[CHOOSE i \in 1..Len(delimiters) :
                   /\ Contains(s, delimiters[i])
                   /\ \A j \in 1..(i - 1) : ~Contains(s, delimiters[j])]

\* The start of the leftmost occurrence in s of any delimiter.
EarliestDelimiterStart(s) ==
    LET starts == {Find(s, delimiters[i]) : i \in 1..Len(delimiters)} \ {0}
    IN CHOOSE k \in starts : \A j \in starts : k <= j

\* C6 as stated: the result is the trimmed text before the first occurrence of
\* the first delimiter in list order that occurs in the input, and no later
\* delimiter is applied.
C6_CutAtFirstListedOnly ==
    (clean_result # <<>> /\ HasDelimiter(artist_name)) =>
        clean_result[1] = Strip(SplitFirst(artist_name, FirstListedDelimiter(artist_name)))

\* C6 amended: every delimiter is applied in turn, so the result is the trimmed
\* text before the leftmost occurrence in the input of any delimiter, and holds
\* no delimiter.
C6_CutAtEarliestDelimiter ==
    (clean_result # <<>> /\ HasDelimiter(artist_name)) =>
        /\ clean_result[1] =
               Strip(SubSeq(artist_name, 1, EarliestDelimiterStart(artist_name) - 1))
        /\ ~HasDelimiter(clean_result[1])

C6_Witness ==
    /\ clean_result # <<>>
    /\ Contains(artist_name, <<"&">>)
    /\ Contains(artist_name, <<",">>)
    /\ Find(artist_name, <<",">>) < Find(artist_name, <<"&">>)
    /\ clean_result[1] = <<"A">>

\* C7 as stated: with no delimiter in the input the result is the input trimmed.
C7_NoDelimiterTrimmed ==
    (clean_result # <<>> /\ ~HasDelimiter(artist_name)) =>
        clean_result[1] = Strip(artist_name)

\* C7 amended: with no delimiter in the input the result is the input itself,
\* surrounding whitespace included.
C7_NoDelimiterUnchanged ==
    (clean_result # <<>> /\ ~HasDelimiter(artist_name)) =>
        clean_result[1] = artist_name

C7_Witness ==
    /\ clean_result # <<>>
    /\ ~HasDelimiter(artist_name)
    /\ artist_name # Strip(artist_name)
    /\ Strip(artist_name) # <<>>
    /\ clean_result[1] = artist_name

(***************************************************************************)
(* Properties of encode_genres                                             *)
(***************************************************************************)
\* The genre labels of a cell of the input, read off the cell itself.
GenreSet(x) == Range(x.value) \cap Genres

\* C8: the output has exactly one indicator column per distinct genre label of
\* the table, every indicator is 0 or 1, and the columns that are 1 in a row are
\* exactly the genres of that row's list, whatever their order in the list.
C8_IndicatorsDecodeToGenreSet ==
    encoded # <<>> =>
        LET out == encoded[1]
            all == UNION {GenreSet(genre_column[r]) : r \in 1..Len(genre_column)}
        IN /\ Range(out.columns) = all
           /\ Len(out.columns) = Cardinality(all)
           /\ Len(out.indicators) = Len(genre_column)
           /\ \A r \in 1..Len(genre_column) :
                  /\ Len(out.indicators[r]) = Len(out.columns)
                  /\ Range(out.indicators[r]) \subseteq {0, 1}
                  /\ {out.columns[j] : j \in {i \in 1..Len(out.columns) :
                                                 out.indicators[r][i] = 1}}
                         = GenreSet(genre_column[r])

C8_Witness ==
    /\ encoded # <<>>
    /\ Len(genre_column) = 2
    /\ genre_column[1] = [isstr |-> TRUE, value |-> <<"[", "rock", ",", "blues", "]">>]
    /\ genre_column[2] = [isstr |-> FALSE, value |-> <<"pop", "pop">>]
    /\ encoded[1].columns = <<"blues", "pop", "rock">>
    /\ encoded[1].indicators = << <<1, 0, 1>>, <<0, 1, 0>> >>

====
